---- MODULE Spec2Model ----
(***************************************************************************)
(* Model of cloud/amazon/iam_saml_federation.py: SAMLProviderManager, the  *)
(* reconciler of one named IAM SAML identity provider, and the IAM         *)
(* collaborator (self.conn) it calls.                                      *)
(*                                                                         *)
(* Strings are sequences of one-character strings, so that split('/', 1)   *)
(* and strip() are computed and not assumed.  Python's None is the value   *)
(* None; a Python dict is a function whose DOMAIN is its set of keys.      *)
(***************************************************************************)
EXTENDS Integers, Sequences, FiniteSets, TLC

\* ---------------------------------------------------------------- bounds
\* Number of invocations of the module in one behaviour.
MaxInvocations == 2

\* Length of the provider list handed to the lookup on its own.
MaxListed == 3

\* ---------------------------------------------------------------- values
None == <<"None">>

EmptyDict == [k \in {} |-> FALSE]

Procs == {1, 2}

\* The processes that run the module one invocation after the other.
SeqProcs == {1}

Names == {<<"a">>, <<"b">>}

\* Metadata documents a provider can hold.
Docs == {<<"x">>, <<" ", "x", " ">>, <<"y">>}

\* Values of the module parameter saml_metadata_document (default None).
MetadataParams == Docs \cup {<<>>, None}

States == {"present", "absent"}

Whitespace == {" "}

\* The part of an arn that precedes the provider name.
ArnPrefix == <<"p">>

\* ------------------------------------------------------- pure functions
\* Python truth value of a string-or-None.
Truthy(v) == v # None /\ v # <<>>

RECURSIVE LStrip(_)
LStrip(s) ==
    IF s # <<>> /\ Head(s) \in Whitespace THEN LStrip(Tail(s)) ELSE s

RECURSIVE RStrip(_)
RStrip(s) ==
    IF s # <<>> /\ s[Len(s)] \in Whitespace
    THEN RStrip(SubSeq(s, 1, Len(s) - 1))
    ELSE s

\* str.strip()
Strip(s) == RStrip(LStrip(s))

\* Index of the first '/' of s, 0 when there is none.
RECURSIVE FirstSlash(_, _)
FirstSlash(s, i) ==
    IF i > Len(s) THEN 0
    ELSE IF s[i] = "/" THEN i
    ELSE FirstSlash(s, i + 1)

\* p['Arn'].split('/', 1)[1]; None stands for the IndexError of an arn
\* without '/'.
provider_name(arn) ==
    LET i == FirstSlash(arn, 1)
    IN IF i = 0 THEN None ELSE SubSeq(arn, i + 1, Len(arn))

\* Variant: the last match wins.
RECURSIVE get_provider_arn_last_from(_, _, _)
get_provider_arn_last_from(name, arns, i) ==
    IF i > Len(arns) THEN None
    ELSE LET later == get_provider_arn_last_from(name, arns, i + 1)
         IN IF later # None THEN later
            ELSE IF name = provider_name(arns[i]) THEN arns[i]
            ELSE None

\* The loop of _get_provider_arn over the listed arns, from index i on.
RECURSIVE get_provider_arn_from(_, _, _)
get_provider_arn_from(name, arns, i) ==
    IF i > Len(arns) THEN None
    ELSE IF name = provider_name(arns[i]) THEN arns[i]
    ELSE get_provider_arn_from(name, arns, i + 1)

\* Variant: the arn is put together from the name when it is listed.
get_provider_arn_local(name, arns) ==
    IF get_provider_arn_from(name, arns, 1) # None
    THEN <<"q", "/">> \o name
    ELSE None

\* Variant: the name test is dropped, the first listed arn is taken.
get_provider_arn_first(name, arns) ==
    IF arns = <<>> THEN None ELSE arns[1]

get_provider_arn(name, arns) == get_provider_arn_from(name, arns, 1)

\* Variant: the documents are compared as they are.
needs_update_exact(metadata, stored) == metadata # stored

\* Variant: only the wanted document is trimmed.
needs_update_onesided(metadata, stored) == Strip(metadata) # stored

\* The comparison that decides an update.
needs_update(metadata, stored) == Strip(metadata) # Strip(stored)

\* Variant: the check-mode test the wrong way round.
may_mutate_inverted(check_mode) == check_mode

\* The guard of every mutating call.
may_mutate(check_mode) == ~check_mode

\* str(e) of a botocore ClientError.
StrError(e) == <<"An error occurred", e.Code, "when calling", e.Operation>>

ClientError(code, op) == [Code |-> code, Operation |-> op]

\* -------------------------------------------------- the IAM collaborator
\* The account's providers, in the order list_saml_providers returns them.
ArnOf(name) == ArnPrefix \o <<"/">> \o name

RemoteArns(r) == [i \in 1..Len(r) |-> r[i].Arn]

RemoteHas(r, arn) == \E i \in 1..Len(r) : r[i].Arn = arn

RemoteDoc(r, arn) == r[CHOOSE i \in 1..Len(r) : r[i].Arn = arn].SAMLMetadataDocument

RemoteCreate(r, name, doc) ==
    Append(r, [Arn |-> ArnOf(name), SAMLMetadataDocument |-> doc])

RemoteUpdate(r, arn, doc) ==
    [i \in 1..Len(r) |->
        IF r[i].Arn = arn THEN [r[i] EXCEPT !.SAMLMetadataDocument = doc]
        ELSE r[i]]

RemoteDelete(r, arn) ==
    LET keep(e) == e.Arn # arn IN SelectSeq(r, keep)

\* Every state of an account: each name at most once, any order.
RemoteEntries == {[Arn |-> ArnOf(n), SAMLMetadataDocument |-> d] : n \in Names, d \in Docs}

RemoteStates ==
    {<<>>}
    \cup {<<e>> : e \in RemoteEntries}
    \cup {s \in {<<e, f>> : e \in RemoteEntries, f \in RemoteEntries} : s[1].Arn # s[2].Arn}

\* Arns a list call could return: other prefixes, a name with a '/' in
\* it, a prefix that is itself a name.
ArnUniverse ==
    {ArnOf(<<"a">>), ArnOf(<<"b">>), <<"q", "/", "a">>,
     <<"p", "/", "a", "/", "b">>, <<"b", "/", "a">>}

RECURSIVE SeqsUpTo(_, _)
SeqsUpTo(S, n) ==
    IF n = 0 THEN {<<>>}
    ELSE LET shorter == SeqsUpTo(S, n - 1)
         IN shorter \cup {Append(s, e) : s \in shorter, e \in S}

\* Any list of at most MaxListed providers, names repeated or not.
ListedStates ==
    SeqsUpTo({[Arn |-> a, SAMLMetadataDocument |-> <<"x">>] : a \in ArnUniverse}, MaxListed)

\* ----------------------------------------------------------------- state
VARIABLES
    remote,   \* the account's SAML providers
    inv,      \* per process: the running or last invocation
    prev,     \* per process: summary of the invocation before the current one
    ninv      \* invocations started so far

vars == <<remote, inv, prev, ninv>>

IdleInv ==
    [pc |-> "idle", state |-> "absent", name |-> <<"a">>, metadata |-> None,
     check_mode |-> FALSE, arn |-> None, res |-> EmptyDict,
     outcome |-> "none", result |-> EmptyDict, calls |-> <<>>,
     start_remote |-> <<>>, listed |-> <<>>, resp |-> EmptyDict]

NoPrev == [valid |-> FALSE]

Init ==
    /\ remote \in RemoteStates
    /\ inv = [p \in Procs |-> IdleInv]
    /\ prev = [p \in Procs |-> NoPrev]
    /\ ninv = 0

\* ---------------------------------------------------------------- helpers
Call(op, arg, ok) == [op |-> op, arg |-> arg, ok |-> ok]

\* module.exit_json(**res)
exit_json(v, res) == [v EXCEPT !.pc = "done", !.outcome = "exit_json", !.result = res, !.res = res]

\* module.fail_json(**res)
fail_json(v, res) == [v EXCEPT !.pc = "done", !.outcome = "fail_json", !.result = res, !.res = res]

\* An exception nobody catches ends the process with a traceback.
uncaught(v, exc) == [v EXCEPT !.pc = "done", !.outcome = "exception", !.result = [exception |-> exc]]

Summary(v) ==
    [valid |-> TRUE, state |-> v.state, name |-> v.name, metadata |-> v.metadata,
     check_mode |-> v.check_mode, outcome |-> v.outcome, result |-> v.result,
     ok |-> \A i \in 1..Len(v.calls) : v.calls[i].ok,
     start_remote |-> v.start_remote]

\* ---------------------------------------------------------------- actions
\* main() with the entry of the method it dispatches to: the metadata check
\* of create_or_update_saml_provider, whose fail_json call names the
\* undefined variable changed and so raises NameError.
Invoke(p) ==
    /\ inv[p].pc \in {"idle", "done"}
    /\ ninv < MaxInvocations
    /\ \E st \in States, nm \in Names, md \in MetadataParams, cm \in BOOLEAN :
        LET v0 == [IdleInv EXCEPT !.state = st, !.name = nm, !.metadata = md,
                                  !.check_mode = cm, !.start_remote = remote]
        IN inv' = [inv EXCEPT ![p] =
                    IF st = "present" /\ ~Truthy(md)
                    THEN uncaught(v0, "NameError")
                    ELSE IF st = "present"
                    THEN [v0 EXCEPT !.pc = "list", !.res = [changed |-> FALSE]]
                    ELSE [v0 EXCEPT !.pc = "list"]]
    /\ prev' = [prev EXCEPT ![p] = IF inv[p].pc = "done" THEN Summary(inv[p]) ELSE NoPrev]
    /\ ninv' = ninv + 1
    /\ UNCHANGED remote

\* Variant: the create branch does not look at check_mode.
present_located_nocheck(v, arn) ==
    IF Truthy(arn)
    THEN [v EXCEPT !.arn = arn, !.pc = "get"]
    ELSE [v EXCEPT !.arn = arn, !.res = [v.res EXCEPT !.changed = TRUE], !.pc = "create"]

\* _get_provider_arn returned arn to create_or_update_saml_provider.
present_located(v, arn) ==
    IF Truthy(arn)
    THEN [v EXCEPT !.arn = arn, !.pc = "get"]
    ELSE LET res == [v.res EXCEPT !.changed = TRUE]
         IN IF may_mutate(v.check_mode)
            THEN [v EXCEPT !.arn = arn, !.res = res, !.pc = "create"]
            ELSE exit_json([v EXCEPT !.arn = arn], res)

\* Variant: the delete branch deletes in check mode only.
absent_located_inverted(v, arn) ==
    LET res0 == [changed |-> FALSE]
    IN IF Truthy(arn)
       THEN LET res == [res0 EXCEPT !.changed = TRUE]
            IN IF v.check_mode
               THEN [v EXCEPT !.arn = arn, !.res = res, !.pc = "delete"]
               ELSE exit_json([v EXCEPT !.arn = arn], res)
       ELSE exit_json([v EXCEPT !.arn = arn], res0)

\* _get_provider_arn returned arn to delete_saml_provider.
absent_located(v, arn) ==
    LET res0 == [changed |-> FALSE]
    IN IF Truthy(arn)
       THEN LET res == [res0 EXCEPT !.changed = TRUE]
            IN IF may_mutate(v.check_mode)
               THEN [v EXCEPT !.arn = arn, !.res = res, !.pc = "delete"]
               ELSE exit_json([v EXCEPT !.arn = arn], res)
       ELSE exit_json([v EXCEPT !.arn = arn], res0)

\* self.conn.list_saml_providers() and the search of the name.
ListOk(p) ==
    /\ inv[p].pc = "list"
    /\ LET providers == RemoteArns(remote)
           v == [inv[p] EXCEPT !.calls = Append(@, Call("list", None, TRUE)),
                               !.listed = providers]
           arn == get_provider_arn(v.name, providers)
       IN inv' = [inv EXCEPT ![p] =
                    IF v.state = "present" THEN present_located(v, arn)
                    ELSE absent_located(v, arn)]
    /\ UNCHANGED <<remote, prev, ninv>>

ListFail(p) ==
    /\ inv[p].pc = "list"
    /\ LET v == [inv[p] EXCEPT !.calls = Append(@, Call("list", None, FALSE))]
       IN inv' = [inv EXCEPT ![p] =
                    uncaught(v, ClientError("ServiceFailure", "ListSAMLProviders"))]
    /\ UNCHANGED <<remote, prev, ninv>>

\* Variant: changed is set next to the update call, inside the check_mode
\* test.
present_fetched_flag_inside(v, doc) ==
    IF needs_update(v.metadata, doc)
    THEN IF may_mutate(v.check_mode)
         THEN [v EXCEPT !.res = [v.res EXCEPT !.changed = TRUE], !.pc = "update"]
         ELSE exit_json(v, v.res)
    ELSE exit_json(v, v.res)

\* The comparison of the fetched document with the wanted one.
present_fetched(v, doc) ==
    IF needs_update(v.metadata, doc)
    THEN LET res == [v.res EXCEPT !.changed = TRUE]
         IN IF may_mutate(v.check_mode)
            THEN [v EXCEPT !.res = res, !.pc = "update"]
            ELSE exit_json(v, res)
    ELSE exit_json(v, v.res)

\* self.conn.get_saml_provider(SAMLProviderArn=arn)
GetOk(p) ==
    /\ inv[p].pc = "get"
    /\ RemoteHas(remote, inv[p].arn)
    /\ LET v == [inv[p] EXCEPT !.calls = Append(@, Call("get", inv[p].arn, TRUE))]
       IN inv' = [inv EXCEPT ![p] = present_fetched(v, RemoteDoc(remote, v.arn))]
    /\ UNCHANGED <<remote, prev, ninv>>

GetFail(p) ==
    /\ inv[p].pc = "get"
    /\ LET v == [inv[p] EXCEPT !.calls = Append(@, Call("get", inv[p].arn, FALSE))]
           code == IF RemoteHas(remote, v.arn) THEN "ServiceFailure" ELSE "NoSuchEntity"
       IN inv' = [inv EXCEPT ![p] = uncaught(v, ClientError(code, "GetSAMLProvider"))]
    /\ UNCHANGED <<remote, prev, ninv>>

\* Variant: the response of the update is not put in the result.
UpdateOk_noarn(p) ==
    /\ inv[p].pc = "update"
    /\ RemoteHas(remote, inv[p].arn)
    /\ LET v == [inv[p] EXCEPT !.calls = Append(@, Call("update", inv[p].arn, TRUE))]
       IN /\ remote' = RemoteUpdate(remote, v.arn, v.metadata)
          /\ inv' = [inv EXCEPT ![p] = exit_json(v, v.res)]
    /\ UNCHANGED <<prev, ninv>>

\* Variant: the provider is fetched again after the update.
UpdateOk_refetch(p) ==
    /\ inv[p].pc = "update"
    /\ RemoteHas(remote, inv[p].arn)
    /\ LET v == [inv[p] EXCEPT !.calls = Append(@, Call("update", inv[p].arn, TRUE))]
           resp == [SAMLProviderArn |-> v.arn]
       IN /\ remote' = RemoteUpdate(remote, v.arn, v.metadata)
          /\ inv' = [inv EXCEPT ![p] =
                      [v EXCEPT !.res = v.res @@ ("provider_arn" :> resp.SAMLProviderArn),
                                !.pc = "get"]]
    /\ UNCHANGED <<prev, ninv>>

\* Variant: the trimmed document is sent to the update.
UpdateOk_stripped(p) ==
    /\ inv[p].pc = "update"
    /\ RemoteHas(remote, inv[p].arn)
    /\ LET resp == [SAMLProviderArn |-> inv[p].arn]
           v == [inv[p] EXCEPT !.calls = Append(@, Call("update", inv[p].arn, TRUE)),
                               !.resp = resp]
       IN /\ remote' = RemoteUpdate(remote, v.arn, Strip(v.metadata))
          /\ inv' = [inv EXCEPT ![p] =
                      exit_json(v, v.res @@ ("provider_arn" :> resp.SAMLProviderArn))]
    /\ UNCHANGED <<prev, ninv>>

\* self.conn.update_saml_provider(SAMLProviderArn=arn, SAMLMetadataDocument=metadata)
UpdateOk(p) ==
    /\ inv[p].pc = "update"
    /\ RemoteHas(remote, inv[p].arn)
    /\ LET resp == [SAMLProviderArn |-> inv[p].arn]
           v == [inv[p] EXCEPT !.calls = Append(@, Call("update", inv[p].arn, TRUE)),
                               !.resp = resp]
       IN /\ remote' = RemoteUpdate(remote, v.arn, v.metadata)
          /\ inv' = [inv EXCEPT ![p] =
                      exit_json(v, v.res @@ ("provider_arn" :> resp.SAMLProviderArn))]
    /\ UNCHANGED <<prev, ninv>>

\* Variant: the failure resets the changed flag.
UpdateFail_reset(p) ==
    /\ inv[p].pc = "update"
    /\ LET v == [inv[p] EXCEPT !.calls = Append(@, Call("update", inv[p].arn, FALSE))]
           e == ClientError("ServiceFailure", "UpdateSAMLProvider")
       IN inv' = [inv EXCEPT ![p] =
                    fail_json(v, [changed |-> FALSE] @@ ("msg" :> StrError(e))
                                       @@ ("debug" :> <<v.arn, v.metadata>>))]
    /\ UNCHANGED <<remote, prev, ninv>>

UpdateFail(p) ==
    /\ inv[p].pc = "update"
    /\ LET v == [inv[p] EXCEPT !.calls = Append(@, Call("update", inv[p].arn, FALSE))]
           code == IF RemoteHas(remote, v.arn) THEN "ServiceFailure" ELSE "NoSuchEntity"
           e == ClientError(code, "UpdateSAMLProvider")
       IN inv' = [inv EXCEPT ![p] =
                    fail_json(v, v.res @@ ("msg" :> StrError(e))
                                       @@ ("debug" :> <<v.arn, v.metadata>>))]
    /\ UNCHANGED <<remote, prev, ninv>>

\* self.conn.create_saml_provider(SAMLMetadataDocument=metadata, Name=name)
CreateOk(p) ==
    /\ inv[p].pc = "create"
    /\ ~RemoteHas(remote, ArnOf(inv[p].name))
    /\ LET resp == [SAMLProviderArn |-> ArnOf(inv[p].name)]
           v == [inv[p] EXCEPT !.calls = Append(@, Call("create", inv[p].name, TRUE)),
                               !.resp = resp]
       IN /\ remote' = RemoteCreate(remote, v.name, v.metadata)
          /\ inv' = [inv EXCEPT ![p] =
                      exit_json(v, v.res @@ ("provider_arn" :> resp.SAMLProviderArn))]
    /\ UNCHANGED <<prev, ninv>>

\* Variant: a create is only attempted while the name is still free.
CreateFail_guarded(p) ==
    /\ inv[p].pc = "create"
    /\ ~RemoteHas(remote, ArnOf(inv[p].name))
    /\ LET v == [inv[p] EXCEPT !.calls = Append(@, Call("create", inv[p].name, FALSE))]
           e == ClientError("ServiceFailure", "CreateSAMLProvider")
       IN inv' = [inv EXCEPT ![p] =
                    fail_json(v, v.res @@ ("msg" :> StrError(e))
                                       @@ ("debug" :> <<v.name, v.metadata>>))]
    /\ UNCHANGED <<remote, prev, ninv>>

\* Variant: a failed create is tried again.
CreateFail_retry(p) ==
    /\ inv[p].pc = "create"
    /\ Len(inv[p].calls) < 4
    /\ LET v == [inv[p] EXCEPT !.calls = Append(@, Call("create", inv[p].name, FALSE))]
       IN inv' = [inv EXCEPT ![p] = v]
    /\ UNCHANGED <<remote, prev, ninv>>

CreateFail(p) ==
    /\ inv[p].pc = "create"
    /\ LET v == [inv[p] EXCEPT !.calls = Append(@, Call("create", inv[p].name, FALSE))]
           code == IF RemoteHas(remote, ArnOf(v.name)) THEN "EntityAlreadyExists"
                   ELSE "ServiceFailure"
           e == ClientError(code, "CreateSAMLProvider")
       IN inv' = [inv EXCEPT ![p] =
                    fail_json(v, v.res @@ ("msg" :> StrError(e))
                                       @@ ("debug" :> <<v.name, v.metadata>>))]
    /\ UNCHANGED <<remote, prev, ninv>>

\* self.conn.delete_saml_provider(SAMLProviderArn=arn)
DeleteOk(p) ==
    /\ inv[p].pc = "delete"
    /\ RemoteHas(remote, inv[p].arn)
    /\ LET v == [inv[p] EXCEPT !.calls = Append(@, Call("delete", inv[p].arn, TRUE))]
       IN /\ remote' = RemoteDelete(remote, v.arn)
          /\ inv' = [inv EXCEPT ![p] = exit_json(v, v.res)]
    /\ UNCHANGED <<prev, ninv>>

\* Variant: the error of the delete is swallowed.
DeleteFail_swallow(p) ==
    /\ inv[p].pc = "delete"
    /\ LET v == [inv[p] EXCEPT !.calls = Append(@, Call("delete", inv[p].arn, FALSE))]
       IN inv' = [inv EXCEPT ![p] = exit_json(v, v.res)]
    /\ UNCHANGED <<remote, prev, ninv>>

DeleteFail(p) ==
    /\ inv[p].pc = "delete"
    /\ LET v == [inv[p] EXCEPT !.calls = Append(@, Call("delete", inv[p].arn, FALSE))]
           code == IF RemoteHas(remote, v.arn) THEN "ServiceFailure" ELSE "NoSuchEntity"
           e == ClientError(code, "DeleteSAMLProvider")
       IN inv' = [inv EXCEPT ![p] =
                    fail_json(v, v.res @@ ("msg" :> StrError(e))
                                       @@ ("debug" :> <<v.arn>>))]
    /\ UNCHANGED <<remote, prev, ninv>>

Step(p) ==
    \/ Invoke(p)
    \/ ListOk(p)
    \/ ListFail(p)
    \/ GetOk(p)
    \/ GetFail(p)
    \/ UpdateOk(p)
    \/ UpdateFail(p)
    \/ CreateOk(p)
    \/ CreateFail(p)
    \/ DeleteOk(p)
    \/ DeleteFail(p)

\* One process runs the module again and again: no invocation overlaps
\* another.
Next == \E p \in SeqProcs : Step(p)

Spec == Init /\ [][Next]_vars

\* Two invocations of the module at the same time against one account,
\* each process running the module once.
ConcStep(p) ==
    \/ inv[p].pc = "idle" /\ Invoke(p)
    \/ ListOk(p)
    \/ ListFail(p)
    \/ GetOk(p)
    \/ GetFail(p)
    \/ UpdateOk(p)
    \/ UpdateFail(p)
    \/ CreateOk(p)
    \/ CreateFail(p)
    \/ DeleteOk(p)
    \/ DeleteFail(p)

\* The lookup on its own, over any provider list.
InitLocate ==
    /\ remote \in ListedStates
    /\ inv = [p \in Procs |-> IdleInv]
    /\ prev = [p \in Procs |-> NoPrev]
    /\ ninv = 0

NextLocate ==
    \E p \in SeqProcs :
        \/ inv[p].pc = "idle" /\ Invoke(p)
        \/ ListOk(p)

LocateSpec == InitLocate /\ [][NextLocate]_vars

NextConc == \E p \in Procs : ConcStep(p)

ConcSpec == Init /\ [][NextConc]_vars

\* ------------------------------------------------------ claim vocabulary
Done(p) == inv[p].pc = "done"

MutatingOps == {"create", "update", "delete"}

ReadOps == {"list", "get"}

CallsOf(v, ops) == {i \in 1..Len(v.calls) : v.calls[i].op \in ops}

AllCallsOk(v) == \A i \in 1..Len(v.calls) : v.calls[i].ok

\* The changed flag a result reports: <<flag>>, or <<>> when it has none.
ReportedChanged(result) ==
    IF "changed" \in DOMAIN result THEN <<result.changed>> ELSE <<>>

\* The account r holds a provider called name whose document equals
\* metadata up to surrounding whitespace.
Converged(r, name, metadata) ==
    \E i \in 1..Len(r) :
        /\ r[i].Arn = ArnOf(name)
        /\ Strip(r[i].SAMLMetadataDocument) = Strip(metadata)

\* The current invocation of p repeats the one before it, both outside
\* check mode and both completing normally.
SamePresentTwice(p) ==
    /\ Done(p)
    /\ prev[p].valid
    /\ inv[p].state = "present" /\ prev[p].state = "present"
    /\ inv[p].name = prev[p].name
    /\ inv[p].metadata = prev[p].metadata
    /\ Truthy(inv[p].metadata)
    /\ ~inv[p].check_mode /\ ~prev[p].check_mode
    /\ inv[p].outcome = "exit_json" /\ prev[p].outcome = "exit_json"

\* ----------------------------------------------------------------- claims
\* C1 (as stated): two successive ensure_present(name, M) with the same
\* non-empty M, outside check mode and with every remote call succeeding,
\* report changed=true and then changed=false.
C1_TrueThenFalse ==
    \A p \in SeqProcs :
        SamePresentTwice(p) =>
            /\ prev[p].result.changed = TRUE
            /\ inv[p].result.changed = FALSE

\* C1 (amended): under the same conditions the second call reports
\* changed=false, and the first reports changed=true exactly when, before
\* it, the name was absent or held a document that differs from M after
\* trimming.
C1_Idempotent ==
    \A p \in SeqProcs :
        SamePresentTwice(p) =>
            /\ inv[p].result.changed = FALSE
            /\ prev[p].result.changed =
                   ~Converged(prev[p].start_remote, prev[p].name, prev[p].metadata)

C1_Witness ==
    \E p \in SeqProcs :
        /\ SamePresentTwice(p)
        /\ prev[p].result.changed = TRUE
        /\ inv[p].result.changed = FALSE
        /\ inv[p].metadata # Strip(inv[p].metadata)

\* C2: after ensure_present(name, M) completes normally outside check
\* mode, the lookup of name finds a provider whose stored document equals
\* M after trimming both.
C2_Convergence ==
    \A p \in SeqProcs :
        (/\ Done(p)
         /\ inv[p].state = "present"
         /\ ~inv[p].check_mode
         /\ inv[p].outcome = "exit_json")
        => LET arn == get_provider_arn(inv[p].name, RemoteArns(remote))
           IN /\ arn # None
              /\ RemoteHas(remote, arn)
              /\ Strip(RemoteDoc(remote, arn)) = Strip(inv[p].metadata)

\* The provider existed with a different document and was brought to M.
C2_Witness ==
    \E p \in SeqProcs :
        /\ Done(p)
        /\ inv[p].state = "present"
        /\ ~inv[p].check_mode
        /\ inv[p].outcome = "exit_json"
        /\ RemoteHas(inv[p].start_remote, ArnOf(inv[p].name))
        /\ ~Converged(inv[p].start_remote, inv[p].name, inv[p].metadata)
        /\ Converged(remote, inv[p].name, inv[p].metadata)

\* C3: an invocation in check mode issues no create, update or delete
\* call, and the account (names, arns, documents, hence every later
\* lookup) is what it was when the invocation started, whatever changed
\* flag it reports.
C3_DryRunNoMutation ==
    \A p \in SeqProcs :
        inv[p].check_mode =>
            /\ CallsOf(inv[p], MutatingOps) = {}
            /\ remote = inv[p].start_remote
            /\ \A n \in Names :
                 get_provider_arn(n, RemoteArns(remote))
                   = get_provider_arn(n, RemoteArns(inv[p].start_remote))

C3_Witness ==
    \E p \in SeqProcs :
        /\ Done(p)
        /\ inv[p].check_mode
        /\ inv[p].state = "absent"
        /\ inv[p].outcome = "exit_json"
        /\ inv[p].result.changed = TRUE
        /\ RemoteHas(remote, ArnOf(inv[p].name))

\* C4: an invocation issues at most one mutating call, at most one list
\* and at most one get; one that got past the input check and has ended
\* issued exactly one list, and a get is only issued after the list.
C4_CallBudget ==
    \A p \in Procs :
        /\ Cardinality(CallsOf(inv[p], MutatingOps)) <= 1
        /\ Cardinality(CallsOf(inv[p], {"list"})) <= 1
        /\ Cardinality(CallsOf(inv[p], {"get"})) <= 1
        /\ (CallsOf(inv[p], {"get"}) # {} => CallsOf(inv[p], {"list"}) # {})
        /\ (Done(p) /\ (inv[p].state = "absent" \/ Truthy(inv[p].metadata))
              => Cardinality(CallsOf(inv[p], {"list"})) = 1)

\* A failed mutating call ends the invocation after list, get, update.
C4_Witness ==
    \E p \in Procs :
        /\ Done(p)
        /\ Len(inv[p].calls) = 3
        /\ inv[p].calls[3].op = "update"
        /\ ~inv[p].calls[3].ok

\* C5: ensure_present with empty or missing metadata ends as a reported
\* input-error failure (fail_json with a message), has issued no remote
\* call and leaves the account untouched.
C5_InvalidInputReported ==
    \A p \in SeqProcs :
        (Done(p) /\ inv[p].state = "present" /\ ~Truthy(inv[p].metadata))
        => /\ inv[p].outcome = "fail_json"
           /\ "msg" \in DOMAIN inv[p].result
           /\ inv[p].calls = <<>>
           /\ remote = inv[p].start_remote

\* C6: ensure_absent(name) completing normally outside check mode leaves
\* no provider the lookup of name resolves (in particular after a
\* successful ensure_present of that name); an ensure_absent whose lookup
\* finds no provider of that name completes normally with changed=false
\* and issues no delete call.
C6_Symmetry ==
    \A p \in SeqProcs :
        (Done(p) /\ inv[p].state = "absent") =>
            /\ (~inv[p].check_mode /\ inv[p].outcome = "exit_json")
                 => /\ get_provider_arn(inv[p].name, RemoteArns(remote)) = None
                    /\ ~RemoteHas(remote, ArnOf(inv[p].name))
            /\ (/\ AllCallsOk(inv[p])
                /\ ~RemoteHas(inv[p].start_remote, ArnOf(inv[p].name)))
                 => /\ inv[p].outcome = "exit_json"
                    /\ inv[p].result = [changed |-> FALSE]
                    /\ CallsOf(inv[p], {"delete"}) = {}

\* ensure_absent deleted what the ensure_present before it had put there.
C6_Witness ==
    \E p \in SeqProcs :
        /\ Done(p)
        /\ inv[p].state = "absent"
        /\ ~inv[p].check_mode
        /\ inv[p].outcome = "exit_json"
        /\ inv[p].result.changed = TRUE
        /\ prev[p].valid
        /\ prev[p].state = "present"
        /\ prev[p].name = inv[p].name
        /\ ~prev[p].check_mode
        /\ prev[p].outcome = "exit_json"
        /\ ~RemoteHas(remote, ArnOf(inv[p].name))

\* C7: an invocation in which a collaborator call failed (list, get,
\* create, update or delete) ends in fail_json with the remote error's
\* message and debug fields.
C7_RemoteErrorReported ==
    \A p \in SeqProcs :
        (Done(p) /\ ~AllCallsOk(inv[p]))
        => /\ inv[p].outcome = "fail_json"
           /\ "msg" \in DOMAIN inv[p].result
           /\ "debug" \in DOMAIN inv[p].result

\* C8 (as stated): the result of a successful ensure_present carries
\* provider_arn whenever the named provider exists at the end.
C8_ArnWheneverExists ==
    \A p \in SeqProcs :
        (/\ Done(p)
         /\ inv[p].state = "present"
         /\ inv[p].outcome = "exit_json"
         /\ RemoteHas(remote, ArnOf(inv[p].name)))
        => "provider_arn" \in DOMAIN inv[p].result

\* C8 (amended): the result of a successful ensure_present carries
\* provider_arn exactly when the invocation issued a create or update call
\* that succeeded, and it is then the arn of the named provider; a no-op
\* on an existing provider and every check-mode run carry none.
C8_ArnIffMutated ==
    \A p \in SeqProcs :
        (/\ Done(p)
         /\ inv[p].state = "present"
         /\ inv[p].outcome = "exit_json")
        => /\ ("provider_arn" \in DOMAIN inv[p].result)
                <=> (\E i \in CallsOf(inv[p], {"create", "update"}) : inv[p].calls[i].ok)
           /\ ("provider_arn" \in DOMAIN inv[p].result)
                => /\ inv[p].result.provider_arn = ArnOf(inv[p].name)
                   /\ RemoteHas(remote, inv[p].result.provider_arn)

C8_Witness ==
    \E p \in SeqProcs :
        /\ Done(p)
        /\ inv[p].state = "present"
        /\ inv[p].outcome = "exit_json"
        /\ "provider_arn" \in DOMAIN inv[p].result
        /\ inv[p].calls[Len(inv[p].calls)].op = "update"

\* The current invocation of p reruns, outside check mode and from the
\* same account state, the check-mode invocation before it; no remote call
\* of either failed.
CheckThenReal(p) ==
    /\ Done(p)
    /\ prev[p].valid
    /\ prev[p].check_mode /\ ~inv[p].check_mode
    /\ inv[p].state = prev[p].state
    /\ inv[p].name = prev[p].name
    /\ inv[p].metadata = prev[p].metadata
    /\ inv[p].start_remote = prev[p].start_remote
    /\ prev[p].ok /\ AllCallsOk(inv[p])

\* C9: the changed flag a check-mode invocation reports equals the flag
\* the same invocation reports from the same account state outside check
\* mode when every remote call succeeds.
C9_CheckModeSameDecision ==
    \A p \in SeqProcs :
        CheckThenReal(p) =>
            /\ ReportedChanged(prev[p].result) = ReportedChanged(inv[p].result)
            /\ prev[p].outcome = inv[p].outcome

C9_Witness ==
    \E p \in SeqProcs :
        /\ CheckThenReal(p)
        /\ inv[p].state = "present"
        /\ inv[p].outcome = "exit_json"
        /\ inv[p].result.changed = TRUE
        /\ prev[p].result.changed = TRUE
        /\ remote # inv[p].start_remote
        /\ Len(inv[p].calls) = 3

\* C10: in an invocation no read call (list, get) follows a mutating call,
\* a mutating call is only issued after the list call has returned, and an
\* update only after the get has returned.
C10_ReadsBeforeWrite ==
    \A p \in Procs :
        \A j \in CallsOf(inv[p], MutatingOps) :
            /\ \A k \in CallsOf(inv[p], ReadOps) : k < j /\ inv[p].calls[k].ok
            /\ \E k \in CallsOf(inv[p], {"list"}) : k < j
            /\ inv[p].calls[j].op = "update"
                 => \E k \in CallsOf(inv[p], {"get"}) : k < j

C10_Witness ==
    \E p \in Procs :
        /\ Done(p)
        /\ Len(inv[p].calls) = 3
        /\ inv[p].calls[1].op = "list"
        /\ inv[p].calls[2].op = "get"
        /\ inv[p].calls[3].op = "update"
        /\ inv[p].calls[3].ok

\* The account r holds a provider called name whose document differs from
\* metadata also after trimming.
Diverged(r, name, metadata) ==
    \E i \in 1..Len(r) :
        /\ r[i].Arn = ArnOf(name)
        /\ Strip(r[i].SAMLMetadataDocument) # Strip(metadata)

\* C11: when the named provider exists with a document that differs from
\* the wanted one after trimming, a successful ensure_present outside
\* check mode issues list, get and exactly one update on the located arn
\* (no create, no delete), reports changed=true with the arn the provider
\* had before, and that arn then holds the wanted document.
C11_UpdateInPlace ==
    \A p \in SeqProcs :
        (/\ Done(p)
         /\ inv[p].state = "present"
         /\ ~inv[p].check_mode
         /\ inv[p].outcome = "exit_json"
         /\ Diverged(inv[p].start_remote, inv[p].name, inv[p].metadata))
        => LET before == ArnOf(inv[p].name)
           IN /\ inv[p].calls = << Call("list", None, TRUE),
                                   Call("get", before, TRUE),
                                   Call("update", before, TRUE) >>
              /\ inv[p].result = [changed |-> TRUE, provider_arn |-> before]
              /\ RemoteHas(remote, before)
              /\ RemoteDoc(remote, before) = inv[p].metadata
              /\ RemoteArns(remote) = RemoteArns(inv[p].start_remote)

\* The wanted document carries surrounding whitespace and replaced another.
C11_Witness ==
    \E p \in SeqProcs :
        /\ Done(p)
        /\ inv[p].state = "present"
        /\ ~inv[p].check_mode
        /\ inv[p].outcome = "exit_json"
        /\ Diverged(inv[p].start_remote, inv[p].name, inv[p].metadata)
        /\ inv[p].metadata # Strip(inv[p].metadata)
        /\ RemoteDoc(remote, ArnOf(inv[p].name)) = inv[p].metadata

\* C12: when the named provider exists and its document equals the wanted
\* one after trimming both, ensure_present (its list and get succeeding)
\* reports changed=false, issues no create, update or delete call and
\* leaves the stored document as it was.
C12_WhitespaceNoOp ==
    \A p \in SeqProcs :
        (/\ Done(p)
         /\ inv[p].state = "present"
         /\ Truthy(inv[p].metadata)
         /\ AllCallsOk(inv[p])
         /\ Converged(inv[p].start_remote, inv[p].name, inv[p].metadata))
        => /\ inv[p].outcome = "exit_json"
           /\ inv[p].result = [changed |-> FALSE]
           /\ CallsOf(inv[p], MutatingOps) = {}
           /\ remote = inv[p].start_remote

\* The stored and the wanted document differ in surrounding whitespace only.
C12_Witness ==
    \E p \in SeqProcs :
        /\ Done(p)
        /\ inv[p].state = "present"
        /\ Truthy(inv[p].metadata)
        /\ AllCallsOk(inv[p])
        /\ Converged(inv[p].start_remote, inv[p].name, inv[p].metadata)
        /\ RemoteDoc(remote, ArnOf(inv[p].name)) # inv[p].metadata
        /\ inv[p].result = [changed |-> FALSE]

\* C13: every invocation that has ended, normally or as a failure,
\* produced through exit_json or fail_json a result with a boolean changed
\* field.
C13_ChangedAlwaysPresent ==
    \A p \in SeqProcs :
        Done(p) =>
            /\ inv[p].outcome \in {"exit_json", "fail_json"}
            /\ "changed" \in DOMAIN inv[p].result
            /\ inv[p].result.changed \in BOOLEAN

\* The terminal states of an invocation record v.
NoOp(v) ==
    /\ v.outcome = "exit_json"
    /\ v.result = [changed |-> FALSE]
    /\ CallsOf(v, MutatingOps) = {}

Mutated(v) ==
    /\ v.outcome = "exit_json"
    /\ \E i \in CallsOf(v, MutatingOps) : v.calls[i].ok

Failed(v) == v.outcome \in {"fail_json", "exception"}

\* Check mode: a change is reported and not made.
WouldChange(v) ==
    /\ v.outcome = "exit_json"
    /\ v.check_mode
    /\ v.result = [changed |-> TRUE]
    /\ CallsOf(v, MutatingOps) = {}

Running(p) == inv[p].pc \in {"list", "get", "create", "update", "delete"}

BoolToNat(b) == IF b THEN 1 ELSE 0

\* C14 (as stated): every invocation that has ended is in one of the
\* terminal states NO_OP, MUTATED or FAILED.
C14_ThreeTerminals ==
    \A p \in SeqProcs :
        Done(p) => (NoOp(inv[p]) \/ Mutated(inv[p]) \/ Failed(inv[p]))

\* C14 (amended): an invocation goes START -> LOCATED | NOT_FOUND ->
\* (NO_OP | WOULD_CHANGE | MUTATE_PENDING) -> (MUTATED | FAILED) and ends
\* in exactly one of NO_OP, MUTATED, FAILED or, in check mode with a change
\* to make, WOULD_CHANGE (changed=true, no mutating call); FAILED is also
\* reached from START (invalid input, failed list) and from LOCATED
\* (failed get).  It is never blocked, issues at most three remote calls,
\* and issues none after a call that failed.
C14_Terminal ==
    \A p \in SeqProcs :
        LET v == inv[p]
            list == Call("list", None, TRUE)
        IN /\ v.pc = "list" => v.calls = <<>>
           /\ v.pc = "get" =>
                 /\ v.calls = <<list>>
                 /\ Truthy(v.arn) /\ v.state = "present"
           /\ v.pc = "create" =>
                 /\ v.calls = <<list>>
                 /\ ~Truthy(v.arn) /\ v.state = "present" /\ ~v.check_mode
           /\ v.pc = "update" =>
                 /\ v.calls = <<list, Call("get", v.arn, TRUE)>>
                 /\ Truthy(v.arn) /\ v.state = "present" /\ ~v.check_mode
           /\ v.pc = "delete" =>
                 /\ v.calls = <<list>>
                 /\ Truthy(v.arn) /\ v.state = "absent" /\ ~v.check_mode
           /\ Running(p) => ENABLED Step(p)
           /\ Len(v.calls) <= 3
           /\ \A i \in 1..(Len(v.calls) - 1) : v.calls[i].ok
           /\ Done(p) =>
                 /\ BoolToNat(NoOp(v)) + BoolToNat(Mutated(v))
                      + BoolToNat(Failed(v)) + BoolToNat(WouldChange(v)) = 1
                 /\ Mutated(v) =>
                      /\ AllCallsOk(v)
                      /\ v.calls[Len(v.calls)].op \in MutatingOps
                      /\ Cardinality(CallsOf(v, MutatingOps)) = 1
                      /\ v.result.changed = TRUE
                 /\ Failed(v) =>
                      \/ v.calls = <<>> /\ v.state = "present" /\ ~Truthy(v.metadata)
                      \/ v.calls # <<>> /\ ~v.calls[Len(v.calls)].ok
                 /\ (NoOp(v) \/ WouldChange(v)) =>
                      /\ AllCallsOk(v)
                      /\ v.calls # <<>>

\* A check-mode run that found a document to replace.
C14_Witness ==
    \E p \in SeqProcs :
        /\ Done(p)
        /\ WouldChange(inv[p])
        /\ inv[p].state = "present"
        /\ Len(inv[p].calls) = 2

\* Invocation q has issued a create call for name.
IssuedCreate(q, name) ==
    \E i \in CallsOf(inv[q], {"create"}) : inv[q].calls[i].arg = name

\* C15: with two concurrent ensure_present of one name, an invocation
\* whose list found the name missing goes on to issue its create call also
\* after the other invocation has issued a create for that name: it holds
\* no arn, looks at the account no further, and its create call stays
\* possible.
C15_SecondCreateIssued ==
    \A p \in Procs : \A q \in Procs \ {p} :
        (inv[p].pc = "create" /\ IssuedCreate(q, inv[p].name))
        => /\ inv[p].arn = None
           /\ inv[p].calls = <<Call("list", None, TRUE)>>
           /\ ENABLED (CreateOk(p) \/ CreateFail(p))

\* Both invocations saw no provider of the name and both issued a create.
C15_Witness ==
    /\ inv[1].name = inv[2].name
    /\ \A p \in Procs :
        /\ inv[p].state = "present"
        /\ ~inv[p].check_mode
        /\ inv[p].arn = None
        /\ Len(inv[p].calls) = 2
        /\ inv[p].calls[1] = Call("list", None, TRUE)
        /\ inv[p].calls[2].op = "create"
        /\ inv[p].calls[2].arg = inv[p].name
        /\ ~RemoteHas(inv[p].start_remote, ArnOf(inv[p].name))

Range(f) == {f[i] : i \in DOMAIN f}

\* C16: every arn passed to a get, update or delete call, and the arn the
\* invocation holds, was returned by the list call of that invocation;
\* a provider_arn in a result is such an arn or the arn in the response
\* of the invocation's create call.
C16_ArnFromRemote ==
    \A p \in Procs :
        LET v == inv[p]
        IN /\ \A i \in CallsOf(v, {"get", "update", "delete"}) :
                /\ v.calls[i].arg \in Range(v.listed)
                /\ \E k \in CallsOf(v, {"list"}) : k < i /\ v.calls[k].ok
           /\ Truthy(v.arn) => v.arn \in Range(v.listed)
           /\ "provider_arn" \in DOMAIN v.result =>
                \/ v.result.provider_arn \in Range(v.listed)
                \/ /\ \E i \in CallsOf(v, {"create"}) : v.calls[i].ok
                   /\ v.resp = [SAMLProviderArn |-> v.result.provider_arn]

\* The arn of the result came with the create response, not from the list.
C16_Witness ==
    \E p \in Procs :
        /\ Done(p)
        /\ "provider_arn" \in DOMAIN inv[p].result
        /\ inv[p].result.provider_arn \notin Range(inv[p].listed)
        /\ inv[p].listed # <<>>
        /\ inv[p].resp = [SAMLProviderArn |-> inv[p].result.provider_arn]

\* name is what follows the first '/' of arn.
HasSuffix(arn, name) ==
    \E k \in 1..Len(arn) :
        /\ arn[k] = "/"
        /\ \A j \in 1..(k - 1) : arn[j] # "/"
        /\ SubSeq(arn, k + 1, Len(arn)) = name

Matches(arns, name) == {i \in 1..Len(arns) : HasSuffix(arns[i], name)}

Min(S) == CHOOSE i \in S : \A j \in S : i <= j

Located(p) == inv[p].calls # <<>> /\ inv[p].calls[1] = Call("list", None, TRUE)

\* C17: the lookup returns the first listed arn whose part after the first
\* '/' equals name, also when several listed arns share that part, and
\* None when no listed arn has it.
C17_FirstMatch ==
    \A p \in SeqProcs :
        Located(p) =>
            LET arns == inv[p].listed
                m == Matches(arns, inv[p].name)
            IN /\ arns = RemoteArns(remote)
               /\ m = {} => inv[p].arn = None
               /\ m # {} =>
                    /\ inv[p].arn = arns[Min(m)]
                    /\ HasSuffix(inv[p].arn, inv[p].name)

\* Two different listed arns carry the name, neither at the head of the
\* list, and the earlier of them is returned.
C17_Witness ==
    \E p \in SeqProcs :
        /\ Located(p)
        /\ LET arns == inv[p].listed
               m == Matches(arns, inv[p].name)
           IN /\ Cardinality({arns[i] : i \in m}) = 2
              /\ Min(m) = 2
              /\ inv[p].arn = arns[2]

\* C18: when the mutating call of an invocation fails, fail_json carries
\* changed=true although the account is what it was when the invocation
\* started.
C18_FailedMutationReportsChanged ==
    \A p \in SeqProcs :
        (/\ Done(p)
         /\ inv[p].calls # <<>>
         /\ inv[p].calls[Len(inv[p].calls)].op \in MutatingOps
         /\ ~inv[p].calls[Len(inv[p].calls)].ok)
        => /\ inv[p].outcome = "fail_json"
           /\ inv[p].result.changed = TRUE
           /\ "msg" \in DOMAIN inv[p].result
           /\ ~inv[p].check_mode
           /\ remote = inv[p].start_remote

C18_Witness ==
    \E p \in SeqProcs :
        /\ Done(p)
        /\ Len(inv[p].calls) = 3
        /\ inv[p].calls[3] = Call("update", inv[p].arn, FALSE)
        /\ inv[p].outcome = "fail_json"
        /\ inv[p].result.changed = TRUE
        /\ remote = inv[p].start_remote

\* C19: an invocation for a name leaves every provider of another name as
\* it was (existence and document), aims each of its calls at that name,
\* issues no delete under state=present and no get, create or update
\* under state=absent.
C19_OnlyTheNamedProvider ==
    \A p \in SeqProcs :
        inv[p].pc # "idle" =>
            LET v == inv[p]
            IN /\ \A n \in Names \ {v.name} :
                    /\ RemoteHas(remote, ArnOf(n)) <=> RemoteHas(v.start_remote, ArnOf(n))
                    /\ RemoteHas(remote, ArnOf(n))
                         => RemoteDoc(remote, ArnOf(n)) = RemoteDoc(v.start_remote, ArnOf(n))
               /\ \A i \in CallsOf(v, {"create"}) : v.calls[i].arg = v.name
               /\ \A i \in CallsOf(v, {"get", "update", "delete"}) :
                    HasSuffix(v.calls[i].arg, v.name)
               /\ v.state = "present" => CallsOf(v, {"delete"}) = {}
               /\ v.state = "absent" => CallsOf(v, {"get", "create", "update"}) = {}

\* A delete went through next to a provider of another name.
C19_Witness ==
    \E p \in SeqProcs :
        /\ Done(p)
        /\ inv[p].state = "absent"
        /\ inv[p].outcome = "exit_json"
        /\ Len(inv[p].calls) = 2
        /\ Len(inv[p].start_remote) = 2
        /\ Len(remote) = 1
====
